---- MODULE Spec2Model ----
(***************************************************************************)
(* A model of id3-go: the ID3v2 tag container (v2/id3v2.go), the v2.4      *)
(* frame codec (v2/id3v24.go), the integer codec (encodedbytes/util.go)    *)
(* and the resize/commit engine (id3.go: Parse, NewMp3Bytes, File.Close,   *)
(* Mp3Bytes.UpdateEditsIntoBytes).                                         *)
(*                                                                         *)
(* Representation.                                                         *)
(*  - A byte is a number in 0..255, a []byte and a string of bytes is a    *)
(*    sequence of them.  A Go string holding text is the sequence of its   *)
(*    code points; the encoders turn code points into bytes.               *)
(*  - A frame is an object of the heap: heap[r] is the frame with          *)
(*    reference r, and the tag's frame list is a sequence of references,   *)
(*    so that `frame == delFrame` (pointer identity) is r = d.             *)
(*  - Go's uint is 64 bits wide.  A uint value u is held as the integer    *)
(*    with the same bit pattern read as int64: u itself below 2^63, and    *)
(*    u - 2^64 from there on.  int(u) and uint(i) are then the identity on *)
(*    the representation, and a negative representation p stands for the   *)
(*    unsigned value 2^64 + p.                                             *)
(*  - A uint32 that the integer codec computes is held the same way, as    *)
(*    the integer with its bit pattern read as int32: u below 2^31, and    *)
(*    u - 2^32 from there on.  The sizes the parsers take from it are      *)
(*    below 2^31, where the representation is the value.                   *)
(***************************************************************************)
EXTENDS Integers, Sequences, FiniteSets, TLC

(***************************************************************************)
(* Slices                                                                  *)
(***************************************************************************)
\* s[:n] and s[n:] where the bounds were checked; past the end they stop there.
Take(s, n) == IF n >= Len(s) THEN s ELSE SubSeq(s, 1, n)

Drop(s, n) == IF n >= Len(s) THEN << >> ELSE SubSeq(s, n + 1, Len(s))

Zeros(n) == [i \in 1..n |-> 0]

\* The builtin copy(dst, src): min(len(dst), len(src)) elements are copied.
copy(dst, src) ==
    [i \in 1..Len(dst) |-> IF i <= Len(src) THEN src[i] ELSE dst[i]]

RECURSIVE Pow2(_)
Pow2(n) == IF n = 0 THEN 1 ELSE 2 * Pow2(n - 1)

(***************************************************************************)
(* encodedbytes: the integer codec                                         *)
(***************************************************************************)
BytesPerInt == 4
SynchByteLength == 7
NormByteLength == 8

\* i << base on a uint32: the bits from 32 - base on are lost, bit 31 - base
\* becomes bit 31 (worth -2^31 here) and the bits below it move up.
Shl(i, base) ==
    IF base = 0 THEN i
    ELSE IF base > 31 THEN 0
    ELSE ((i % 2^(31 - base)) - ((i \div 2^(31 - base)) % 2) * 2^(31 - base))
         * 2^base

\* ByteInt's loop from byte k of buf on, with accumulator i.  The bits of
\* i << base and of b never overlap where the loop goes on, so | is +.
RECURSIVE ByteIntLoop(_, _, _, _)
ByteIntLoop(buf, base, k, i) ==
    IF k > Len(buf) THEN [err |-> "", i |-> i]
    ELSE IF base < NormByteLength /\ buf[k] >= Pow2(base)
         THEN [err |-> "byte integer: exceed max bit", i |-> i]
         ELSE ByteIntLoop(buf, base, k + 1, Shl(i, base) + buf[k])

\* ByteInt that takes a slice of BytesPerInt bytes for too long.
ByteInt_RejectsFourBytes(buf, base) ==
    IF Len(buf) >= BytesPerInt
    THEN [err |-> "byte integer: invalid []byte length", i |-> 0]
    ELSE ByteIntLoop(buf, base, 1, 0)

ByteInt(buf, base) ==
    IF Len(buf) > BytesPerInt
    THEN [err |-> "byte integer: invalid []byte length", i |-> 0]
    ELSE ByteIntLoop(buf, base, 1, 0)

SynchInt(buf) == ByteInt(buf, SynchByteLength)

NormInt(buf) == ByteInt(buf, NormByteLength)

\* IntBytes that fills the slice from its first byte, the low chunk first.
IntBytes_LeastSignificantFirst(n, base) ==
    [k \in 1..BytesPerInt |->
        ((n \div Pow2(base * (k - 1))) % Pow2(base)) % 256]

IntBytes(n, base) ==
    [k \in 1..BytesPerInt |->
        ((n \div Pow2(base * (BytesPerInt - k))) % Pow2(base)) % 256]

SynchBytes(n) == IntBytes(n, SynchByteLength)

NormBytes(n) == IntBytes(n, NormByteLength)

(***************************************************************************)
(* encodedbytes: the text encoding table                                   *)
(***************************************************************************)
EncodingMap ==
    << [Name |-> "ISO-8859-1", NullLength |-> 1],
       [Name |-> "UTF-16", NullLength |-> 2],
       [Name |-> "UTF-16BE", NullLength |-> 2],
       [Name |-> "UTF-8", NullLength |-> 1] >>

\* An index of the array EncodingMap beyond its last entry panics.
EncodingForIndex(b) ==
    LET encodingIndex == IF b < 0 \/ b > Len(EncodingMap) THEN 0 ELSE b
    IN  IF encodingIndex >= Len(EncodingMap)
        THEN [panic |-> TRUE, name |-> ""]
        ELSE [panic |-> FALSE, name |-> EncodingMap[encodingIndex + 1].Name]

EncodingNullLengthForIndex(b) ==
    LET encodingIndex == IF b < 0 \/ b > Len(EncodingMap) THEN 0 ELSE b
    IN  IF encodingIndex >= Len(EncodingMap)
        THEN [panic |-> TRUE, length |-> 0]
        ELSE [panic |-> FALSE, length |-> EncodingMap[encodingIndex + 1].NullLength]

\* IndexForEncoding that counts the entries from 1.
IndexForEncoding_OneBased(e) ==
    IF \E k \in 1..Len(EncodingMap) : EncodingMap[k].Name = e
    THEN CHOOSE k \in 1..Len(EncodingMap) :
             /\ EncodingMap[k].Name = e
             /\ \A j \in 1..(k - 1) : EncodingMap[j].Name # e
    ELSE 0

\* The first index (0-based) whose entry is named e, and 0 when there is none.
IndexForEncoding(e) ==
    IF \E k \in 1..Len(EncodingMap) : EncodingMap[k].Name = e
    THEN (CHOOSE k \in 1..Len(EncodingMap) :
             /\ EncodingMap[k].Name = e
             /\ \A j \in 1..(k - 1) : EncodingMap[j].Name # e) - 1
    ELSE 0

ReplacementChar == 65533

\* One code point in UTF-8.
EncodeRuneUTF8(c) ==
    IF c < 128 THEN << c >>
    ELSE IF c < 2048 THEN << 192 + (c \div 64), 128 + (c % 64) >>
    ELSE << 224 + (c \div 4096), 128 + ((c \div 64) % 64), 128 + (c % 64) >>

RECURSIVE Flatten(_)
Flatten(ss) == IF ss = << >> THEN << >> ELSE Head(ss) \o Flatten(Tail(ss))

\* Encoders[idx].String(text): the bytes, or an error for a code point the
\* encoding cannot represent.
EncodeString(idx, text) ==
    IF idx = 0
    THEN IF \E k \in 1..Len(text) : text[k] > 255
         THEN [err |-> "encoding: rune not supported by encoding", bytes |-> << >>]
         ELSE [err |-> "", bytes |-> text]
    ELSE IF idx = 1
    THEN [err |-> "",
          bytes |-> << 254, 255 >> \o
                    Flatten([k \in 1..Len(text) |-> << text[k] \div 256, text[k] % 256 >>])]
    ELSE IF idx = 2
    THEN [err |-> "",
          bytes |-> Flatten([k \in 1..Len(text) |-> << text[k] \div 256, text[k] % 256 >>])]
    ELSE IF idx = 3
    THEN [err |-> "", bytes |-> Flatten([k \in 1..Len(text) |-> EncodeRuneUTF8(text[k])])]
    ELSE [err |-> "panic: index out of range", bytes |-> << >>]

IsCont(b) == b >= 128 /\ b < 192

\* The UTF-8 decoder: an ill-formed byte becomes U+FFFD.
RECURSIVE DecodeUTF8(_)
DecodeUTF8(b) ==
    IF b = << >> THEN << >>
    ELSE IF b[1] < 128 THEN << b[1] >> \o DecodeUTF8(Tail(b))
    ELSE IF b[1] >= 194 /\ b[1] < 224 /\ Len(b) >= 2 /\ IsCont(b[2])
         THEN << (b[1] - 192) * 64 + (b[2] - 128) >> \o DecodeUTF8(Drop(b, 2))
    ELSE IF b[1] >= 224 /\ b[1] < 240 /\ Len(b) >= 3 /\ IsCont(b[2]) /\ IsCont(b[3])
            /\ (b[1] - 224) * 4096 + (b[2] - 128) * 64 + (b[3] - 128) >= 2048
         THEN << (b[1] - 224) * 4096 + (b[2] - 128) * 64 + (b[3] - 128) >>
              \o DecodeUTF8(Drop(b, 3))
    ELSE << ReplacementChar >> \o DecodeUTF8(Tail(b))

\* Big-endian UTF-16 code units of the basic plane; an odd last byte is ill-formed.
RECURSIVE DecodeUTF16BE(_)
DecodeUTF16BE(b) ==
    IF b = << >> THEN << >>
    ELSE IF Len(b) = 1 THEN << ReplacementChar >>
    ELSE << b[1] * 256 + b[2] >> \o DecodeUTF16BE(Drop(b, 2))

RECURSIVE DecodeUTF16LE(_)
DecodeUTF16LE(b) ==
    IF b = << >> THEN << >>
    ELSE IF Len(b) = 1 THEN << ReplacementChar >>
    ELSE << b[2] * 256 + b[1] >> \o DecodeUTF16LE(Drop(b, 2))

\* Decoders[idx].String(bytes).
DecodeString(idx, b) ==
    IF idx = 0 THEN b
    ELSE IF idx = 1
    THEN IF Len(b) >= 2 /\ b[1] = 254 /\ b[2] = 255 THEN DecodeUTF16BE(Drop(b, 2))
         ELSE IF Len(b) >= 2 /\ b[1] = 255 /\ b[2] = 254 THEN DecodeUTF16LE(Drop(b, 2))
         ELSE DecodeUTF16BE(b)
    ELSE IF idx = 2 THEN DecodeUTF16BE(b)
    ELSE DecodeUTF8(b)

EncodedDiff(newEncoding, newString, oldEncoding, oldString) ==
    LET n == EncodeString(newEncoding, newString)
        o == EncodeString(oldEncoding, oldString)
    IN  IF n.err # "" THEN [err |-> n.err, diff |-> 0]
        ELSE IF o.err # "" THEN [err |-> o.err, diff |-> 0]
        ELSE [err |-> "", diff |-> Len(n.bytes) - Len(o.bytes)]

(***************************************************************************)
(* v2: frame types                                                         *)
(***************************************************************************)
FrameHeaderSize == 10
V22FrameHeaderSize == 6

\* Frame identifiers, as the bytes of their characters.
TIT2 == << 84, 73, 84, 50 >>
TPE1 == << 84, 80, 69, 49 >>
TALB == << 84, 65, 76, 66 >>
TYER == << 84, 89, 69, 82 >>
TDRC == << 84, 68, 82, 67 >>
TCON == << 84, 67, 79, 78 >>
TLEN == << 84, 76, 69, 78 >>
COMM == << 67, 79, 77, 77 >>
TT2 == << 84, 84, 50 >>
TP1 == << 84, 80, 49 >>
TAL == << 84, 65, 76 >>
TYE == << 84, 89, 69 >>
TCO == << 84, 67, 79 >>
TLE == << 84, 76, 69 >>
COM == << 67, 79, 77 >>

\* The zero FrameType: what a map lookup of a missing key yields.
ZeroFrameType == [id |-> << >>, description |-> "", constructor |-> "nil"]

UnknownFrameType(id) ==
    [id |-> id, description |-> "Unknown frame", constructor |-> "ParseDataFrame"]

TextFrameType(id) ==
    [id |-> id, description |-> "Text frame", constructor |-> "ParseTextFrame"]

UnsynchTextFrameType(id) ==
    [id |-> id, description |-> "Unsynchronized text frame",
     constructor |-> "ParseUnsynchTextFrame"]

\* The frames of the v2.3 registry that the semantic fields use.
V23FrameTypeIds == {TIT2, TPE1, TALB, TYER, TDRC, TCON, TLEN, COMM}

V23FrameTypeMap(id) ==
    IF id = COMM THEN UnsynchTextFrameType(id)
    ELSE IF id \in V23FrameTypeIds THEN TextFrameType(id) ELSE ZeroFrameType

V24FrameTypeIds == V23FrameTypeIds

V24FrameTypeMap(id) == V23FrameTypeMap(id)

V22FrameTypeIds == {TT2, TP1, TAL, TYE, TCO, TLE, COM}

V22FrameTypeMap(id) ==
    IF id = COM THEN UnsynchTextFrameType(id)
    ELSE IF id \in V22FrameTypeIds THEN TextFrameType(id) ELSE ZeroFrameType

Fields == {"Title", "Artist", "Album", "Year", "Genre", "Length"}

\* The names of the semantic accessors.
SemanticNames == Fields \cup {"Comments"}

V24CommonFrame(name) ==
    CASE name = "Title" -> V23FrameTypeMap(TIT2)
      [] name = "Artist" -> V23FrameTypeMap(TPE1)
      [] name = "Album" -> V23FrameTypeMap(TALB)
      [] name = "Year" -> V23FrameTypeMap(TDRC)
      [] name = "Genre" -> V23FrameTypeMap(TCON)
      [] name = "Comments" -> V23FrameTypeMap(COMM)
      [] OTHER -> ZeroFrameType

V23CommonFrame(name) ==
    CASE name = "Title" -> V23FrameTypeMap(TIT2)
      [] name = "Artist" -> V23FrameTypeMap(TPE1)
      [] name = "Album" -> V23FrameTypeMap(TALB)
      [] name = "Year" -> V23FrameTypeMap(TYER)
      [] name = "Genre" -> V23FrameTypeMap(TCON)
      [] name = "Length" -> V23FrameTypeMap(TLEN)
      [] name = "Comments" -> V23FrameTypeMap(COMM)
      [] OTHER -> ZeroFrameType

V22CommonFrame(name) ==
    CASE name = "Title" -> V22FrameTypeMap(TT2)
      [] name = "Artist" -> V22FrameTypeMap(TP1)
      [] name = "Album" -> V22FrameTypeMap(TAL)
      [] name = "Year" -> V22FrameTypeMap(TYE)
      [] name = "Genre" -> V22FrameTypeMap(TCO)
      [] name = "Length" -> V22FrameTypeMap(TLE)
      [] name = "Comments" -> V22FrameTypeMap(COM)
      [] OTHER -> ZeroFrameType

(***************************************************************************)
(* v2: frames                                                              *)
(***************************************************************************)
\* A frame object.  kind "text" is a TextFrame (a TextFramer), kind "data" a
\* DataFrame.  owner is TRUE when the owner reference is the tag, FALSE when nil.
ParseTextFrame(head, data) ==
    [ft |-> head.ft, statusFlags |-> head.statusFlags, formatFlags |-> head.formatFlags,
     size |-> head.size, owner |-> FALSE, kind |-> "text",
     encoding |-> IF data = << >> THEN 0 ELSE data[1],
     text |-> IF data = << >> THEN << >> ELSE DecodeString(data[1], Tail(data)),
     data |-> << >>]

ParseDataFrame(head, data) ==
    [ft |-> head.ft, statusFlags |-> head.statusFlags, formatFlags |-> head.formatFlags,
     size |-> head.size, owner |-> FALSE, kind |-> "data",
     encoding |-> 0, text |-> << >>, data |-> data]

\* An unsynchronized text frame (comments, lyrics), its payload kept as it is.
ParseUnsynchTextFrame(head, data) ==
    [ParseDataFrame(head, data) EXCEPT !.kind = "unsynch"]

Construct(head, data) ==
    IF head.ft.constructor = "ParseTextFrame"
    THEN ParseTextFrame(head, data)
    ELSE IF head.ft.constructor = "ParseUnsynchTextFrame"
    THEN ParseUnsynchTextFrame(head, data)
    ELSE ParseDataFrame(head, data)

NewTextFrame(ft, text, encoding) ==
    LET i == IndexForEncoding(encoding)
    IN  [ft |-> ft, statusFlags |-> 0, formatFlags |-> 0,
         size |-> 1 + Len(EncodeString(i, text).bytes), owner |-> FALSE, kind |-> "text",
         encoding |-> i, text |-> text, data |-> << >>]

NewDataFrame(ft, data) ==
    [ft |-> ft, statusFlags |-> 0, formatFlags |-> 0,
     size |-> Len(data), owner |-> FALSE, kind |-> "data",
     encoding |-> 0, text |-> << >>, data |-> data]

\* Framer.Bytes(): the payload.
FrameBytes(f) ==
    IF f.kind = "text"
    THEN << f.encoding >> \o EncodeString(f.encoding, f.text).bytes
    ELSE f.data

\* bytes.Trim(b, "\x00")
RECURSIVE TrimLeft(_)
TrimLeft(b) == IF b # << >> /\ b[1] = 0 THEN TrimLeft(Tail(b)) ELSE b

RECURSIVE TrimRight(_)
TrimRight(b) ==
    IF b # << >> /\ b[Len(b)] = 0 THEN TrimRight(Take(b, Len(b) - 1)) ELSE b

Trim(b) == TrimRight(TrimLeft(b))

NilFrame == [nil |-> TRUE]

\* The reader is the stream and the number of bytes already read, pos.
ParseV24Frame(stream, pos) ==
    IF Len(stream) - pos < FrameHeaderSize THEN NilFrame
    ELSE LET data == SubSeq(stream, pos + 1, pos + FrameHeaderSize)
             id == Trim(Take(data, 4))
             t == IF id \in V24FrameTypeIds THEN V24FrameTypeMap(id)
                  ELSE UnknownFrameType(id)
             sz == SynchInt(SubSeq(data, 5, 8))
             h == [ft |-> t, statusFlags |-> data[9], formatFlags |-> data[10],
                   size |-> sz.i]
         IN  IF sz.err # "" THEN NilFrame
             ELSE IF id = << >> /\ sz.i = 0 THEN NilFrame
             ELSE IF Len(stream) - (pos + FrameHeaderSize) < sz.i THEN NilFrame
             ELSE [nil |-> FALSE,
                   frame |-> Construct(h, SubSeq(stream, pos + FrameHeaderSize + 1,
                                                 pos + FrameHeaderSize + sz.i))]

V24Bytes(f) ==
    f.ft.id \o SynchBytes(f.size) \o << f.statusFlags, f.formatFlags >> \o FrameBytes(f)

ParseV23Frame(stream, pos) ==
    IF Len(stream) - pos < FrameHeaderSize THEN NilFrame
    ELSE LET data == SubSeq(stream, pos + 1, pos + FrameHeaderSize)
             id == Trim(Take(data, 4))
             t == IF id \in V23FrameTypeIds THEN V23FrameTypeMap(id)
                  ELSE UnknownFrameType(id)
             sz == NormInt(SubSeq(data, 5, 8))
             h == [ft |-> t, statusFlags |-> data[9], formatFlags |-> data[10],
                   size |-> sz.i]
         IN  IF sz.err # "" THEN NilFrame
             ELSE IF id = << >> /\ sz.i = 0 THEN NilFrame
             ELSE IF Len(stream) - (pos + FrameHeaderSize) < sz.i THEN NilFrame
             ELSE [nil |-> FALSE,
                   frame |-> Construct(h, SubSeq(stream, pos + FrameHeaderSize + 1,
                                                 pos + FrameHeaderSize + sz.i))]

V23Bytes(f) ==
    f.ft.id \o NormBytes(f.size) \o << f.statusFlags, f.formatFlags >> \o FrameBytes(f)

ParseV22Frame(stream, pos) ==
    IF Len(stream) - pos < V22FrameHeaderSize THEN NilFrame
    ELSE LET data == SubSeq(stream, pos + 1, pos + V22FrameHeaderSize)
             id == Trim(Take(data, 3))
             t == IF id \in V22FrameTypeIds THEN V22FrameTypeMap(id)
                  ELSE UnknownFrameType(id)
             sz == NormInt(SubSeq(data, 4, 6))
             h == [ft |-> t, statusFlags |-> 0, formatFlags |-> 0, size |-> sz.i]
         IN  IF sz.err # "" THEN NilFrame
             ELSE IF id = << >> /\ sz.i = 0 THEN NilFrame
             ELSE IF Len(stream) - (pos + V22FrameHeaderSize) < sz.i THEN NilFrame
             ELSE [nil |-> FALSE,
                   frame |-> Construct(h, SubSeq(stream, pos + V22FrameHeaderSize + 1,
                                                 pos + V22FrameHeaderSize + sz.i))]

V22Bytes(f) ==
    f.ft.id \o Drop(NormBytes(f.size), 1) \o FrameBytes(f)

(***************************************************************************)
(* v2: the tag container                                                   *)
(***************************************************************************)
HeaderSize == 10

ID3 == << 73, 68, 51 >>

NilHeader == [nil |-> TRUE]

ParseHeader(stream) ==
    IF Len(stream) < HeaderSize \/ Take(stream, 3) # ID3 THEN NilHeader
    ELSE LET data == Take(stream, HeaderSize)
             size == SynchInt(SubSeq(data, 7, 10))
         IN  IF size.err # "" THEN NilHeader
             ELSE [nil |-> FALSE, version |-> data[4], revision |-> data[5],
                   flags |-> data[6], size |-> size.i]

\* Header.Bytes()
HeaderBytes(t) ==
    ID3 \o << t.version, t.revision, t.flags >> \o SynchBytes(t.size)

\* codec stands for the three version-bound tables NewTag installs together:
\* commonMap, frameConstructor and frameBytesConstructor.
NewTag(version) ==
    [kind |-> "v2", version |-> version, revision |-> 0, flags |-> 0, size |-> 0,
     frames |-> << >>, padding |-> 0, dirty |-> FALSE,
     codec |-> CASE version = 2 -> "V22" [] version = 4 -> "V24" [] OTHER -> "V23",
     frameHeaderSize |-> IF version = 2 THEN V22FrameHeaderSize ELSE FrameHeaderSize]

commonMap(t, name) ==
    CASE t.codec = "V22" -> V22CommonFrame(name)
      [] t.codec = "V24" -> V24CommonFrame(name)
      [] OTHER -> V23CommonFrame(name)

frameConstructor(t, stream, pos) ==
    CASE t.codec = "V22" -> ParseV22Frame(stream, pos)
      [] t.codec = "V24" -> ParseV24Frame(stream, pos)
      [] OTHER -> ParseV23Frame(stream, pos)

frameBytesConstructor(t, f) ==
    CASE t.codec = "V22" -> V22Bytes(f)
      [] t.codec = "V24" -> V24Bytes(f)
      [] OTHER -> V23Bytes(f)

\* ParseTag's loop that gives up the rest of the declared size with the frame
\* it could not read: nothing is left for the padding.
RECURSIVE ParseTagLoop_BreakLeavesNoPadding(_, _, _, _, _)
ParseTagLoop_BreakLeavesNoPadding(t, stream, pos, size, acc) ==
    IF size > 0
    THEN LET fr == frameConstructor(t, stream, pos)
         IN  IF fr.nil THEN [frames |-> acc, size |-> 0]
             ELSE ParseTagLoop_BreakLeavesNoPadding(
                      t, stream, pos + t.frameHeaderSize + fr.frame.size,
                      size - (t.frameHeaderSize + fr.frame.size),
                      Append(acc, [fr.frame EXCEPT !.owner = TRUE]))
    ELSE [frames |-> acc, size |-> size]

\* ParseTag's loop: the frames read so far, the reader's position and what is
\* left of the declared size.
RECURSIVE ParseTagLoop(_, _, _, _, _)
ParseTagLoop(t, stream, pos, size, acc) ==
    IF size > 0
    THEN LET fr == frameConstructor(t, stream, pos)
         IN  IF fr.nil THEN [frames |-> acc, size |-> size]
             ELSE ParseTagLoop(t, stream, pos + t.frameHeaderSize + fr.frame.size,
                               size - (t.frameHeaderSize + fr.frame.size),
                               Append(acc, [fr.frame EXCEPT !.owner = TRUE]))
    ELSE [frames |-> acc, size |-> size]

NilTag == [nil |-> TRUE]

\* The tag, and the frame objects it read: the caller gives them the references
\* 1..Len(objects), in stream order.  padding = uint(size) keeps the bit pattern.
ParseTag(stream) ==
    LET header == ParseHeader(stream)
    IN  IF header.nil THEN NilTag
        ELSE LET t0 == [NewTag(header.version) EXCEPT !.revision = header.revision,
                                                      !.flags = header.flags,
                                                      !.size = header.size]
                 got == ParseTagLoop(t0, stream, HeaderSize, t0.size, << >>)
             IN  [nil |-> FALSE,
                  tag |-> [t0 EXCEPT !.frames = [k \in 1..Len(got.frames) |-> k],
                                     !.padding = got.size],
                  objects |-> got.frames]

\* Header.Size()
Size(t) == t.size

\* RealSize(): int(uint(t.size) - t.padding), the subtraction modulo 2^64.
RealSize(t) == t.size - t.padding

\* changeSize that never lets the padding absorb a growth.
changeSize_GrowthSkipsPadding(t, diff) ==
    LET d == t.padding - diff
    IN  IF d < 0 \/ diff > 0
        THEN [t EXCEPT !.size = @ + diff, !.dirty = TRUE]
        ELSE [t EXCEPT !.padding = d, !.dirty = TRUE]

\* changeSize that leaves the padding as it was when the growth exceeds it.
changeSize_KeepsThePaddingItUsedUp(t, diff) ==
    LET d == t.padding - diff
    IN  IF d < 0
        THEN [t EXCEPT !.size = @ + (-d), !.dirty = TRUE]
        ELSE [t EXCEPT !.padding = d, !.dirty = TRUE]

changeSize(t, diff) ==
    LET d == t.padding - diff
    IN  IF d < 0
        THEN [t EXCEPT !.padding = 0, !.size = @ + (-d), !.dirty = TRUE]
        ELSE [t EXCEPT !.padding = d, !.dirty = TRUE]

\* Dirty() with the flag read the wrong way round.
Dirty_Inverted(t) == ~t.dirty

Dirty(t) == t.dirty

AllFrames(t) == t.frames

Frames(t, heap, id) == SelectSeq(t.frames, LAMBDA r : heap[r].ft.id = id)

NoFrame == 0

\* The first frame with the id, or nil.
Frame(t, heap, id) ==
    LET frames == Frames(t, heap, id)
    IN  IF Len(frames) # 0 THEN frames[1] ELSE NoFrame

RemoveAt(s, i) == Take(s, i - 1) \o Drop(s, i)

\* DeleteFrames' loop, at 1-based index i.
RECURSIVE DeleteFramesLoop(_, _, _, _, _)
DeleteFramesLoop(t, heap, id, i, diff) ==
    IF i <= Len(t.frames)
    THEN LET frame == t.frames[i]
         IN  IF heap[frame].ft.id # id
             THEN DeleteFramesLoop(t, heap, id, i + 1, diff)
             ELSE DeleteFramesLoop([t EXCEPT !.frames = RemoveAt(@, i)],
                                   [heap EXCEPT ![frame].owner = FALSE], id, i,
                                   diff + t.frameHeaderSize + heap[frame].size)
    ELSE [t |-> t, heap |-> heap, diff |-> diff]

\* DeleteFrames starting from AllFrames(), as DeleteFrame does.
DeleteFrames_FromAllFrames(t, heap, id) ==
    LET frames == AllFrames(t)
        done == DeleteFramesLoop(t, heap, id, 1, 0)
    IN  [t |-> changeSize(done.t, -done.diff), heap |-> done.heap, ret |-> frames]

DeleteFrames(t, heap, id) ==
    LET frames == Frames(t, heap, id)
        done == DeleteFramesLoop(t, heap, id, 1, 0)
    IN  [t |-> changeSize(done.t, -done.diff), heap |-> done.heap, ret |-> frames]

RECURSIVE DeleteFrameLoop(_, _, _, _, _)
DeleteFrameLoop(t, heap, delFrame, i, diff) ==
    IF i <= Len(t.frames)
    THEN LET frame == t.frames[i]
         IN  IF frame = delFrame
             THEN DeleteFrameLoop([t EXCEPT !.frames = RemoveAt(@, i)],
                                  [heap EXCEPT ![frame].owner = FALSE], delFrame, i,
                                  diff + t.frameHeaderSize + heap[frame].size)
             ELSE DeleteFrameLoop(t, heap, delFrame, i + 1, diff)
    ELSE [t |-> t, heap |-> heap, diff |-> diff]

DeleteFrame(t, heap, delFrame) ==
    LET frames == AllFrames(t)
        done == DeleteFrameLoop(t, heap, delFrame, 1, 0)
    IN  [t |-> changeSize(done.t, -done.diff), heap |-> done.heap, ret |-> frames]

RECURSIVE AddFrames(_, _, _)
AddFrames(t, heap, frames) ==
    IF frames = << >> THEN [t |-> t, heap |-> heap]
    ELSE LET frame == Head(frames)
             t1 == changeSize(t, t.frameHeaderSize + heap[frame].size)
         IN  AddFrames([t1 EXCEPT !.frames = Append(@, frame)],
                       [heap EXCEPT ![frame].owner = TRUE], Tail(frames))

\* Tag.Bytes(): the loop over the frames, writing into data at index.
RECURSIVE TagBytesLoop(_, _, _, _, _)
TagBytesLoop(t, heap, k, index, data) ==
    IF k > Len(t.frames) THEN [panic |-> FALSE, bytes |-> HeaderBytes(t) \o data]
    ELSE LET f == heap[t.frames[k]]
             size == t.frameHeaderSize + f.size
         IN  IF index + size > Len(data)
             THEN [panic |-> TRUE, bytes |-> << >>]
             ELSE TagBytesLoop(t, heap, k + 1, index + size,
                               Take(data, index)
                               \o copy(SubSeq(data, index + 1, index + size),
                                       frameBytesConstructor(t, f))
                               \o Drop(data, index + size))

\* Bytes() with data made RealSize() bytes long: the frames, no padding.
TagBytes_WithoutThePadding(t, heap) == TagBytesLoop(t, heap, 1, 0, Zeros(RealSize(t)))

TagBytes(t, heap) == TagBytesLoop(t, heap, 1, 0, Zeros(Size(t)))

(***************************************************************************)
(* v2: text frames and the semantic setters                                *)
(***************************************************************************)
\* FrameHead.changeSize: the frame's size, and through the owner reference the
\* tag's.
FrameChangeSize(t, heap, r, diff) ==
    [t |-> IF heap[r].owner THEN changeSize(t, diff) ELSE t,
     heap |-> [heap EXCEPT ![r].size = @ + diff]]

SetEncoding(t, heap, r, encoding) ==
    LET i == IndexForEncoding(encoding)
        d == EncodedDiff(i, heap[r].text, heap[r].encoding, heap[r].text)
    IN  IF d.err # "" THEN [t |-> t, heap |-> heap]
        ELSE LET w == FrameChangeSize(t, heap, r, d.diff)
             IN  [t |-> w.t, heap |-> [w.heap EXCEPT ![r].encoding = i]]

SetText(t, heap, r, text) ==
    LET d == EncodedDiff(heap[r].encoding, text, heap[r].encoding, heap[r].text)
    IN  IF d.err # "" THEN [t |-> t, heap |-> heap]
        ELSE LET w == FrameChangeSize(t, heap, r, d.diff)
             IN  [t |-> w.t, heap |-> [w.heap EXCEPT ![r].text = text]]

\* textFrame that never finds the frame.
textFrame_NeverFound(t, heap, ft) == NoFrame

textFrame(t, heap, ft) ==
    LET frame == Frame(t, heap, ft.id)
    IN  IF frame # NoFrame /\ heap[frame].kind = "text" THEN frame ELSE NoFrame

textFrameText(t, heap, ft) ==
    LET frame == textFrame(t, heap, ft)
    IN  IF frame # NoFrame THEN heap[frame].text ELSE << >>

\* A new frame object gets the next reference, Len(heap) + 1.
setTextFrameText(t, heap, ft, text) ==
    LET frame == textFrame(t, heap, ft)
    IN  IF frame # NoFrame
        THEN LET e == SetEncoding(t, heap, frame, "UTF-8")
             IN  SetText(e.t, e.heap, frame, text)
        ELSE LET f == NewTextFrame(ft, text, "UTF-8")
             IN  AddFrames(t, Append(heap, f), << Len(heap) + 1 >>)

\* fmt.Sprintf("%d", n), as code points.
RECURSIVE Digits(_)
Digits(n) == IF n < 10 THEN << 48 + n >> ELSE Append(Digits(n \div 10), 48 + (n % 10))

Sprintd(n) == IF n < 0 THEN << 45 >> \o Digits(-n) ELSE Digits(n)

(***************************************************************************)
(* v1: the fixed 128-byte trailer                                          *)
(***************************************************************************)
V1TagSize == 128

TAG == << 84, 65, 71 >>

PadTo(b, n) == [k \in 1..n |-> IF k <= Len(b) THEN b[k] ELSE 0]

V1ParseTag(stream) ==
    IF Len(stream) < V1TagSize THEN NilTag
    ELSE LET data == Drop(stream, Len(stream) - V1TagSize)
         IN  IF Take(data, 3) # TAG THEN NilTag
             ELSE [nil |-> FALSE,
                   tag |-> [kind |-> "v1", dirty |-> FALSE,
                            title |-> TrimRight(SubSeq(data, 4, 33)),
                            artist |-> TrimRight(SubSeq(data, 34, 63)),
                            album |-> TrimRight(SubSeq(data, 64, 93)),
                            year |-> TrimRight(SubSeq(data, 94, 97)),
                            comment |-> SubSeq(data, 98, 127),
                            genre |-> data[128]],
                   objects |-> << >>]

V1Bytes(t) ==
    TAG \o PadTo(t.title, 30) \o PadTo(t.artist, 30) \o PadTo(t.album, 30)
        \o PadTo(t.year, 4) \o t.comment \o << t.genre >>

V1Fields == {"Title", "Artist", "Album", "Year"}

V1Set(t, name, text) ==
    CASE name = "Title" -> [t EXCEPT !.title = text, !.dirty = TRUE]
      [] name = "Artist" -> [t EXCEPT !.artist = text, !.dirty = TRUE]
      [] name = "Album" -> [t EXCEPT !.album = text, !.dirty = TRUE]
      [] OTHER -> [t EXCEPT !.year = text, !.dirty = TRUE]

(***************************************************************************)
(* id3: opening and the resize/commit engine                               *)
(***************************************************************************)
LatestVersion == 3

\* Parse and NewMp3Bytes: the tagger, its frame objects and originalSize.
NewMp3Bytes(stream) ==
    LET v2Tag == ParseTag(stream)
        v1Tag == V1ParseTag(stream)
    IN  IF ~v2Tag.nil
        THEN [tag |-> v2Tag.tag, heap |-> v2Tag.objects, originalSize |-> Size(v2Tag.tag)]
        ELSE IF ~v1Tag.nil
        THEN [tag |-> v1Tag.tag, heap |-> << >>, originalSize |-> 0]
        ELSE [tag |-> NewTag(LatestVersion), heap |-> << >>, originalSize |-> 0]

\* shiftBytesBackInMem with the tail copied to out[start:], the offset forgotten.
shiftBytesBackInMem_TailAtStart(blob, start, offset) ==
    IF start > Len(blob) THEN [panic |-> TRUE, out |-> << >>]
    ELSE LET out0 == Zeros(Len(blob) + offset)
             out1 == copy(out0, Take(blob, start))
         IN  [panic |-> FALSE,
              out |-> Take(out1, start) \o copy(Drop(out1, start), Drop(blob, start))]

\* blob[:start] and blob[start:] panic when start is beyond the slice.
shiftBytesBackInMem(blob, start, offset) ==
    IF start > Len(blob) THEN [panic |-> TRUE, out |-> << >>]
    ELSE LET out0 == Zeros(Len(blob) + offset)
             out1 == copy(out0, Take(blob, start))
         IN  [panic |-> FALSE,
              out |-> Take(out1, start + offset)
                      \o copy(Drop(out1, start + offset), Drop(blob, start))]

\* The serialized tagger: Tagger.Bytes().
TaggerBytes(t, heap) ==
    IF t.kind = "v1" THEN [panic |-> FALSE, bytes |-> V1Bytes(t)] ELSE TagBytes(t, heap)

UpdateEditsIntoBytes(t, heap, blob, originalSize) ==
    IF ~Dirty(t) THEN [panic |-> FALSE, blob |-> blob]
    ELSE LET grow == t.kind = "v2" /\ Size(t) > originalSize
             start == IF grow THEN originalSize + HeaderSize ELSE 0
             offset == IF t.kind = "v1" THEN Len(blob) - V1TagSize
                       ELSE IF grow THEN Size(t) - originalSize ELSE 0
             shifted == IF grow THEN shiftBytesBackInMem(blob, start, offset)
                        ELSE [panic |-> FALSE, out |-> blob]
             insert == TaggerBytes(t, heap)
         IN  IF shifted.panic \/ insert.panic \/ start + offset > Len(shifted.out)
             THEN [panic |-> TRUE, blob |-> shifted.out]
             ELSE [panic |-> FALSE,
                   blob |-> copy(Take(shifted.out, start + offset), insert.bytes)
                            \o Drop(shifted.out, start + offset)]

\* file.Write at the offset pos: the bytes overwrite, and extend the file.
WriteAt(file, pos, b) == Take(file, pos) \o b \o Drop(file, pos + Len(b))

\* The bytes from start on move forward by offset; the gap keeps what it held.
shiftBytesBack(file, start, offset) ==
    IF start >= Len(file) THEN file
    ELSE WriteAt(file, start + offset, Drop(file, start))

Close(t, heap, file, originalSize) ==
    IF ~Dirty(t) THEN [panic |-> FALSE, file |-> file]
    ELSE IF t.kind = "v1"
    THEN [panic |-> FALSE, file |-> WriteAt(file, Len(file) - V1TagSize, V1Bytes(t))]
    ELSE LET shifted == IF Size(t) > originalSize
                        THEN shiftBytesBack(file, originalSize + HeaderSize,
                                            Size(t) - originalSize)
                        ELSE file
             insert == TagBytes(t, heap)
         IN  IF insert.panic THEN [panic |-> TRUE, file |-> shifted]
             ELSE [panic |-> FALSE, file |-> WriteAt(shifted, 0, insert.bytes)]

(***************************************************************************)
(* The inputs: streams, texts and frames the caller supplies               *)
(***************************************************************************)
\* How many operations (mutations and commits) a run makes after opening.
MaxOps == 3

TextA == << 65 >>
TextB == << 72, 101, 108, 108, 111 >>
Lengths == {7}

XXXX == << 88, 88, 88, 88 >>
XXX == << 88, 88, 88 >>
AbsentId == << 90, 90, 90, 90 >>

Audio == << 255, 251, 144, 100, 1, 2, 3, 4, 5, 6, 7, 8 >>
ShortAudio == << 255, 251, 144 >>

StreamHeader(version, size) == ID3 \o << version, 0, 0 >> \o SynchBytes(size)

\* A v2.3/v2.4 frame whose size is below 128, where the two conventions agree.
StreamFrame(id, payload) == id \o NormBytes(Len(payload)) \o << 0, 0 >> \o payload

StreamTrailer(title) ==
    TAG \o PadTo(title, 30) \o Zeros(30) \o Zeros(30) \o PadTo(<< 50, 48, 50, 52 >>, 4)
        \o Zeros(30) \o << 12 >>

\* v2.3, one text frame and 20 bytes of padding, then audio.
StreamPadded ==
    StreamHeader(3, 32) \o StreamFrame(TIT2, << 0 >> \o TextA) \o Zeros(20) \o Audio

\* v2.4, three frames (two of one id around an unknown one), no padding.
StreamFull ==
    StreamHeader(4, 40) \o StreamFrame(TIT2, << 3 >> \o TextA)
        \o StreamFrame(XXXX, << 1, 2 >>) \o StreamFrame(TIT2, << 3 >> \o TextB) \o Audio

\* v2.4, a declared size of 5 before a complete frame of 12 bytes.
StreamOverrun == StreamHeader(4, 5) \o StreamFrame(TIT2, << 3 >> \o TextA) \o Audio

\* v2.3, cut short inside its second frame.
StreamTruncated ==
    StreamHeader(3, 40) \o StreamFrame(TIT2, << 3 >> \o TextA)
        \o Take(StreamFrame(TPE1, << 3 >> \o TextB), 13)

\* v2.2, one text frame and 4 bytes of padding.
StreamV22 ==
    StreamHeader(2, 12) \o TT2 \o << 0, 0, 2 >> \o << 0 >> \o TextA \o Zeros(4) \o Audio

StreamV1 == Audio \o StreamTrailer(TextA)

\* What an Mp3Bytes is opened on, and what a File is opened on.
Streams ==
    {Audio, ShortAudio, StreamPadded, StreamFull, StreamOverrun, StreamTruncated,
     StreamV22, StreamV1}

FileStreams == {Audio, StreamPadded, StreamFull, StreamV1}

\* The calls of SetTitle, SetArtist, SetAlbum, SetYear and SetGenre.
SetCalls ==
    {<< "Title", TextA >>, << "Title", TextB >>, << "Artist", TextB >>,
     << "Album", TextA >>, << "Year", TextB >>, << "Genre", TextA >>}

\* The frames a caller constructs for a tag: a text frame of the Title type and
\* a data frame of an unknown type.
NewFrames(t) ==
    { NewTextFrame(commonMap(t, "Title"), TextA, "UTF-8"),
      NewDataFrame(UnknownFrameType(IF t.codec = "V22" THEN XXX ELSE XXXX), << 1, 2 >>) }

(***************************************************************************)
(* The state machine                                                       *)
(***************************************************************************)
VARIABLES
    storage,       \* "file" (a File), "bytes" (an Mp3Bytes) or "none" (a bare tag)
    input,         \* the stream as it was when opened
    blob,          \* the stream now: the file's content or Mp3Bytes.blob
    originalSize,
    tag,           \* the Tagger
    heap,          \* the frame objects, by reference
    phase,         \* "new", "open", "closed" or "panicked"
    nops,          \* operations made since opening
    fresh,         \* the tag was made by NewTag, not read from the stream
    calls,         \* the methods called since opening, as a set of names
    last,          \* the last operation: its name, arguments, result and the
                   \* tag and stream before it
    call,          \* a call of a function of the library on its own: the
                   \* function's name and its arguments
    result         \* what that call returned

vars == << storage, input, blob, originalSize, tag, heap, phase, nops, fresh, calls,
          last, call, result >>

NoOp ==
    [op |-> "", pre |-> NilTag, blob |-> << >>, id |-> << >>, refs |-> << >>,
     ret |-> << >>, field |-> ""]

NoCall == [fn |-> ""]

NoResult == [done |-> FALSE]

Init ==
    /\ \/ storage = "bytes" /\ input \in Streams /\ tag = NilTag
       \/ storage = "file" /\ input \in FileStreams /\ tag = NilTag
       \/ storage = "none" /\ input = << >> /\ tag \in {NewTag(2), NewTag(4)}
    /\ blob = input
    /\ originalSize = 0
    /\ heap = << >>
    /\ phase = IF storage = "none" THEN "open" ELSE "new"
    /\ nops = 0
    /\ fresh = (storage = "none")
    /\ calls = {}
    /\ last = NoOp
    /\ call = NoCall
    /\ result = NoResult

\* id3.Parse / id3.NewMp3Bytes
Open ==
    /\ phase = "new"
    /\ LET res == NewMp3Bytes(blob)
       IN  /\ tag' = res.tag
           /\ heap' = res.heap
           /\ originalSize' = res.originalSize
           /\ fresh' = (res.tag.kind = "v2" /\ ParseTag(blob).nil)
    /\ phase' = "open"
    /\ last' = [NoOp EXCEPT !.op = "Open"]
    /\ UNCHANGED << storage, input, blob, nops, calls, call, result >>

CanMutate == phase = "open" /\ nops < MaxOps

Mutated(w, rec) ==
    /\ tag' = w.t
    /\ heap' = w.heap
    /\ nops' = nops + 1
    /\ last' = [rec EXCEPT !.pre = tag, !.blob = blob]
    /\ calls' = calls \cup {IF rec.op = "Set" THEN rec.field ELSE rec.op}
    /\ UNCHANGED << storage, input, blob, originalSize, phase, fresh, call, result >>

Range(q) == {q[k] : k \in 1..Len(q)}

\* The frame objects the caller holds a reference to from the last call: the
\* frames it passed and the frames it got back.
Held == Range(last.refs) \cup Range(last.ret)

\* Tag.AddFrames with one frame the caller already holds, with one new frame,
\* or with the two new frames together.
DoAddFrames ==
    /\ CanMutate /\ tag.kind = "v2"
    /\ \/ \E r \in Held :
            Mutated(AddFrames(tag, heap, << r >>),
                    [NoOp EXCEPT !.op = "AddFrames", !.refs = << r >>])
       \/ \E f \in NewFrames(tag) :
            Mutated(AddFrames(tag, Append(heap, f), << Len(heap) + 1 >>),
                    [NoOp EXCEPT !.op = "AddFrames", !.refs = << Len(heap) + 1 >>])
       \/ \E f \in NewFrames(tag) : \E g \in NewFrames(tag) \ {f} :
            /\ f.kind = "text"
            /\ Mutated(AddFrames(tag, Append(Append(heap, f), g),
                                 << Len(heap) + 1, Len(heap) + 2 >>),
                       [NoOp EXCEPT !.op = "AddFrames",
                                    !.refs = << Len(heap) + 1, Len(heap) + 2 >>])

DoDeleteFrames ==
    /\ CanMutate /\ tag.kind = "v2"
    /\ \E id \in {heap[r].ft.id : r \in Range(tag.frames)} \cup {AbsentId} :
         LET w == DeleteFrames(tag, heap, id)
         IN  Mutated(w, [NoOp EXCEPT !.op = "DeleteFrames", !.id = id, !.ret = w.ret])

DoDeleteFrame ==
    /\ CanMutate /\ tag.kind = "v2"
    /\ \E r \in Range(tag.frames) \cup Held :
         LET w == DeleteFrame(tag, heap, r)
         IN  Mutated(w, [NoOp EXCEPT !.op = "DeleteFrame", !.refs = << r >>, !.ret = w.ret])

\* SetTitle, SetArtist, SetAlbum, SetYear, SetGenre
DoSet ==
    /\ CanMutate
    /\ \E set \in SetCalls :
         LET name == set[1]
             text == set[2]
         IN
         IF tag.kind = "v2"
         THEN Mutated(setTextFrameText(tag, heap, commonMap(tag, name), text),
                      [NoOp EXCEPT !.op = "Set", !.field = name])
         ELSE /\ name \in V1Fields
              /\ Mutated([t |-> V1Set(tag, name, text), heap |-> heap],
                         [NoOp EXCEPT !.op = "Set", !.field = name])

DoSetLength ==
    /\ CanMutate /\ tag.kind = "v2"
    /\ \E length \in Lengths :
         Mutated(setTextFrameText(tag, heap, commonMap(tag, "Length"), Sprintd(length)),
                    [NoOp EXCEPT !.op = "Set", !.field = "Length"])

DoUpdateEditsIntoBytes ==
    /\ CanMutate /\ storage = "bytes"
    /\ LET res == UpdateEditsIntoBytes(tag, heap, blob, originalSize)
       IN  /\ blob' = res.blob
           /\ phase' = IF res.panic THEN "panicked" ELSE "open"
    /\ nops' = nops + 1
    /\ last' = [NoOp EXCEPT !.op = "UpdateEditsIntoBytes", !.pre = tag, !.blob = blob]
    /\ calls' = calls \cup {"UpdateEditsIntoBytes"}
    /\ UNCHANGED << storage, input, originalSize, tag, heap, fresh, call, result >>

DoClose ==
    /\ phase = "open" /\ storage = "file"
    /\ LET res == Close(tag, heap, blob, originalSize)
       IN  /\ blob' = res.file
           /\ phase' = IF res.panic THEN "panicked" ELSE "closed"
    /\ nops' = nops + 1
    /\ last' = [NoOp EXCEPT !.op = "Close", !.pre = tag, !.blob = blob]
    /\ calls' = calls \cup {"Close"}
    /\ UNCHANGED << storage, input, originalSize, tag, heap, fresh, call, result >>

Next ==
    \/ Open
    \/ DoAddFrames
    \/ DoDeleteFrames
    \/ DoDeleteFrame
    \/ DoSet
    \/ DoSetLength
    \/ DoUpdateEditsIntoBytes
    \/ DoClose

Spec == Init /\ [][Next]_vars

(***************************************************************************)
(* The library's functions called on their own                             *)
(***************************************************************************)
\* Numbers a caller encodes, as uint32: the limits of each chunk, the values
\* of the package's tests, 2^28 - 1, 2^28, 2^31 - 1, and 2^31, 0xFF000000 and
\* 2^32 - 1 in the int32 reading.
Uint32s ==
    {0, 1, 127, 128, 255, 256, 16383, 16384, 65535, 65536, 2097151, 2097152,
     16777215, 16777216, 144619524, 194358964, 268435455, 268435456,
     2147483647, (-2147483647) - 1, -16777216, -1}

\* The tag and the stream stay out of it.
Idle ==
    /\ storage = "none" /\ input = << >> /\ blob = << >> /\ originalSize = 0
    /\ tag = NilTag /\ heap = << >> /\ phase = "call" /\ nops = 0
    /\ fresh = FALSE /\ calls = {} /\ last = NoOp

Pending(fn) == call.fn = fn /\ ~result.done

Returned(fn) == call.fn = fn /\ result.done

Returns(r) ==
    /\ result' = r
    /\ UNCHANGED << storage, input, blob, originalSize, tag, heap, phase, nops, fresh,
                    calls, last, call >>

\* SynchBytes(n), and SynchInt of what it returned.
CallSynchBytes ==
    /\ Pending("SynchBytes")
    /\ Returns([done |-> TRUE, bytes |-> SynchBytes(call.n),
                back |-> SynchInt(SynchBytes(call.n))])

\* NormBytes(n), and NormInt of what it returned.
CallNormBytes ==
    /\ Pending("NormBytes")
    /\ Returns([done |-> TRUE, bytes |-> NormBytes(call.n),
                back |-> NormInt(NormBytes(call.n))])

\* Every value of an encoding byte.
EncodingBytes == 0..255

\* The names of the table, and names it does not hold.
EncodingNames ==
    {"ISO-8859-1", "UTF-16", "UTF-16BE", "UTF-8", "", "UTF-7", "utf-8", "UTF-16LE"}

\* EncodingForIndex(b), and IndexForEncoding of the name it returned.
CallEncodingForIndex ==
    /\ Pending("EncodingForIndex")
    /\ LET r == EncodingForIndex(call.b)
       IN  Returns([done |-> TRUE, panic |-> r.panic, name |-> r.name,
                    back |-> IF r.panic THEN 0 ELSE IndexForEncoding(r.name)])

CallEncodingNullLengthForIndex ==
    /\ Pending("EncodingNullLengthForIndex")
    /\ LET r == EncodingNullLengthForIndex(call.b)
       IN  Returns([done |-> TRUE, panic |-> r.panic, length |-> r.length])

CallIndexForEncoding ==
    /\ Pending("IndexForEncoding")
    /\ Returns([done |-> TRUE, index |-> IndexForEncoding(call.e)])

\* The slices ByteInt is given: up to MaxBufLen bytes, each a value on one
\* side of a limit 2^base.
MaxBufLen == 5

SampleBytes == {0, 7, 8, 127, 128, 255}

RECURSIVE SeqsOf(_, _)
SeqsOf(S, n) ==
    IF n = 0 THEN {<< >>}
    ELSE LET shorter == SeqsOf(S, n - 1)
         IN  shorter \cup {Append(q, x) : q \in {r \in shorter : Len(r) = n - 1}, x \in S}

Bases == {3, SynchByteLength, NormByteLength}

CallByteInt ==
    /\ Pending("ByteInt")
    /\ LET r == ByteInt(call.buf, call.base)
       IN  Returns([done |-> TRUE, err |-> r.err, i |-> r.i])

\* A v2.3 tag of one Title frame ("A" in UTF-8, 12 bytes with its header)
\* before padding bytes of padding, then audio.
PaddedStream(padding) ==
    StreamHeader(3, 12 + padding) \o StreamFrame(TIT2, << 3 >> \o TextA)
        \o Zeros(padding) \o Audio

Paddings == {0, 5, 15, 20, 35}

\* Two growths in a row, in bytes: of the title's text, then by the footprint
\* of a frame that is added.
Growths == {<< 5, 30 >>, << 0, 10 >>, << 5, 10 >>, << 20, 30 >>}

\* ParseTag, then SetTitle with a text longer by call.first bytes, then
\* AddFrames with a data frame of call.second bytes with its header.
CallGrow ==
    /\ Pending("Grow")
    /\ \E parsed \in {ParseTag(PaddedStream(call.padding))} :
       \E w1 \in {setTextFrameText(parsed.tag, parsed.objects,
                                    commonMap(parsed.tag, "Title"),
                                    [k \in 1..(1 + call.first) |-> 65])} :
         LET f == NewDataFrame(UnknownFrameType(XXXX),
                               Zeros(call.second - parsed.tag.frameHeaderSize))
             w2 == AddFrames(w1.t, Append(w1.heap, f), << Len(w1.heap) + 1 >>)
         IN  Returns([done |-> TRUE, before |-> parsed.tag, first |-> w1.t,
                      second |-> w2.t])

\* Streams for ParseTag: a tag of the version whose first frames are a Title
\* frame and a frame of an unknown id, 12 bytes each, and then what ends the
\* scan.
ScanStream(version, ending) ==
    LET f1 == StreamFrame(TIT2, << 3 >> \o TextA)
        f2 == StreamFrame(XXXX, << 1, 2 >>)
        f3 == StreamFrame(TPE1, << 3 >> \o TextB)
    IN  CASE ending = "zeros" ->
               StreamHeader(version, 44) \o f1 \o f2 \o Zeros(20) \o Audio
          [] ending = "cutHeader" ->
               StreamHeader(version, 44) \o f1 \o f2 \o Take(f3, 5)
          [] ending = "cutPayload" ->
               StreamHeader(version, 44) \o f1 \o f2 \o Take(f3, 13)
          [] ending = "firstCut" ->
               StreamHeader(version, 44) \o Take(f1, 11)
          [] ending = "sizeByte128" ->
               StreamHeader(version, 162) \o f1 \o f2
                   \o XXXX \o << 0, 0, 0, 128 >> \o << 0, 0 >> \o Zeros(128) \o Audio
          [] ending = "full" ->
               StreamHeader(version, 24) \o f1 \o f2 \o Audio
          [] OTHER ->
               StreamHeader(version, 5) \o f1 \o Audio

Endings == {"zeros", "cutHeader", "cutPayload", "firstCut", "sizeByte128", "full", "overrun"}

ParseStreams ==
    {ScanStream(version, ending) : version \in {3, 4}, ending \in Endings}
        \cup {StreamPadded, StreamTruncated, StreamV22, Audio}

CallParseTag ==
    /\ Pending("ParseTag")
    /\ \E parsed \in {ParseTag(call.stream)} :
         Returns(IF parsed.nil THEN [done |-> TRUE, nil |-> TRUE]
                 ELSE [done |-> TRUE, nil |-> FALSE, tag |-> parsed.tag,
                       objects |-> parsed.objects])

CallInit ==
    /\ Idle
    /\ result = NoResult
    /\ \/ \E n \in Uint32s : call = [fn |-> "SynchBytes", n |-> n]
       \/ \E n \in Uint32s : call = [fn |-> "NormBytes", n |-> n]
       \/ \E b \in EncodingBytes : call = [fn |-> "EncodingForIndex", b |-> b]
       \/ \E b \in EncodingBytes : call = [fn |-> "EncodingNullLengthForIndex", b |-> b]
       \/ \E e \in EncodingNames : call = [fn |-> "IndexForEncoding", e |-> e]
       \/ \E buf \in SeqsOf(SampleBytes, MaxBufLen) : \E base \in Bases :
             call = [fn |-> "ByteInt", buf |-> buf, base |-> base]
       \/ \E padding \in Paddings : \E g \in Growths :
             call = [fn |-> "Grow", padding |-> padding, first |-> g[1], second |-> g[2]]
       \/ \E stream \in ParseStreams : call = [fn |-> "ParseTag", stream |-> stream]

CallNext ==
    \/ CallSynchBytes
    \/ CallNormBytes
    \/ CallEncodingForIndex
    \/ CallEncodingNullLengthForIndex
    \/ CallIndexForEncoding
    \/ CallByteInt
    \/ CallGrow
    \/ CallParseTag

CallSpec == CallInit /\ [][CallNext]_vars

(***************************************************************************)
(* Properties                                                              *)
(***************************************************************************)
RECURSIVE Footprint(_, _, _)
\* The sum over the frame list refs of frameHeaderSize + frame.Size().
Footprint(t, objects, refs) ==
    IF refs = << >> THEN 0
    ELSE t.frameHeaderSize + objects[Head(refs)].size + Footprint(t, objects, Tail(refs))

Max(a, b) == IF a >= b THEN a ELSE b

Commits == {"UpdateEditsIntoBytes", "Close"}

\* The last call was a commit, and it returned.
Committed == last.op \in Commits /\ phase \in {"open", "closed"}

\* Only AddFrames, DeleteFrames and DeleteFrame have changed the tag.
StructuralOnly == calls \subseteq {"AddFrames", "DeleteFrames", "DeleteFrame"} \cup Commits

\* C1: for a v2 tag made by NewTag or ParseTag and changed only by AddFrames,
\* DeleteFrames and DeleteFrame, Size() is Padding() plus the sum of the frames'
\* footprints (frameHeaderSize + Size()).  Padding() is a uint: a negative
\* representation is a value near 2^64, never the difference.
C1_SizeIsPaddingPlusFrames ==
    (phase = "open" /\ tag.kind = "v2" /\ StructuralOnly)
        => /\ tag.padding >= 0
           /\ Size(tag) = tag.padding + Footprint(tag, heap, tag.frames)

\* C2: when UpdateEditsIntoBytes commits a dirty v2 tag whose Size() exceeds
\* originalSize and returns, the result is longer than the buffer was by
\* Size() - originalSize, and every byte from offset originalSize + 10 on is in
\* it, in order, that much further on.
C2_GrowthShiftsTheTrailingBytes ==
    (last.op = "UpdateEditsIntoBytes" /\ phase = "open" /\ tag.kind = "v2"
        /\ Dirty(tag) /\ Size(tag) > originalSize)
        => LET n == Size(tag) - originalSize
           IN  /\ Len(blob) = Len(last.blob) + n
               /\ \A k \in (originalSize + HeaderSize + 1)..Len(last.blob) :
                      blob[k + n] = last.blob[k]

C2_Witness ==
    /\ last.op = "UpdateEditsIntoBytes" /\ phase = "open" /\ tag.kind = "v2"
    /\ Dirty(tag) /\ Size(tag) > originalSize
    /\ originalSize > 0
    /\ Len(last.blob) > originalSize + HeaderSize

\* C3: after a dirty v2 tag is committed with UpdateEditsIntoBytes, the buffer
\* begins with tag.Bytes(), whether the tag grew beyond originalSize or not.
C3_BufferBeginsWithTagBytes ==
    (last.op = "UpdateEditsIntoBytes" /\ phase = "open" /\ tag.kind = "v2" /\ Dirty(tag))
        => LET b == TagBytes(tag, heap)
           IN  ~b.panic /\ Len(blob) >= Len(b.bytes) /\ Take(blob, Len(b.bytes)) = b.bytes

\* C4: when the stream carried no tag and frames were added to the new tag, the
\* first commit is a pure prepend: the tag's bytes, then every byte of the stream.
C4_FreshTagCommitIsAPrepend ==
    (Committed /\ fresh /\ originalSize = 0 /\ last.blob = input /\ tag.frames # << >>)
        => LET b == TagBytes(tag, heap)
           IN  ~b.panic /\ blob = b.bytes \o input

\* C5: when the tag is not dirty a commit changes nothing: UpdateEditsIntoBytes
\* returns the buffer as it was and Close leaves the file as it was.
C5_CleanCommitIsANoOp ==
    (last.op \in Commits /\ ~tag.dirty) => (blob = last.blob /\ phase # "panicked")

C5_Witness ==
    /\ last.op \in Commits /\ ~tag.dirty /\ tag.kind = "v1" /\ storage = "bytes"
    /\ Len(blob) > V1TagSize

\* C6: committing a dirty ID3v1 tag, with Close or UpdateEditsIntoBytes, keeps
\* the length, writes the trailer's bytes V1TagSize before the end and leaves
\* every earlier byte as it was.
C6_V1CommitWritesTheTrailerInPlace ==
    (Committed /\ tag.kind = "v1" /\ Dirty(tag))
        => /\ Len(blob) = Len(last.blob)
           /\ Drop(blob, Len(blob) - V1TagSize) = V1Bytes(tag)
           /\ Take(blob, Len(blob) - V1TagSize) = Take(last.blob, Len(blob) - V1TagSize)

\* C7 as claimed: after AddFrames(f), Size() is the previous Size() plus
\* frameHeaderSize plus f.Size(), and Dirty() is true.
C7_AddFramesGrowsSizeByTheFootprint ==
    (last.op = "AddFrames" /\ Len(last.refs) = 1)
        => /\ Size(tag) = Size(last.pre) + Footprint(tag, heap, last.refs)
           /\ Dirty(tag)

\* C7 as amended: after AddFrames(f), Dirty() is true and RealSize() (Size()
\* minus Padding()) is its previous value plus frameHeaderSize plus f.Size();
\* Size() grows by the part of that footprint the previous padding did not
\* absorb, max(0, footprint - int(Padding())), which is the whole footprint
\* when Padding() was 0.
C7_AddFramesGrowsRealSize ==
    last.op = "AddFrames"
        => LET n == Footprint(tag, heap, last.refs)
           IN  /\ Dirty(tag)
               /\ RealSize(tag) = RealSize(last.pre) + n
               /\ Size(tag) = Size(last.pre) + Max(0, n - last.pre.padding)
               /\ last.pre.padding = 0 => Size(tag) = Size(last.pre) + n

C7_Witness ==
    /\ last.op = "AddFrames" /\ Len(last.refs) = 1
    /\ last.pre.padding > 0
    /\ Footprint(tag, heap, last.refs) > last.pre.padding

\* C8: after DeleteFrames(id) removes a non-empty set, the frames returned are
\* the frames Frames(id) returned before, in that order; the other frames keep
\* their order; and the tag shrinks by the removed frames' footprint, which is
\* the growth of the padding plus the reduction of the size field.
C8_DeleteFramesReturnsTheRemoved ==
    (last.op = "DeleteFrames" /\ last.ret # << >>)
        => LET n == Footprint(last.pre, heap, last.ret)
           IN  /\ last.ret = Frames(last.pre, heap, last.id)
               /\ tag.frames = SelectSeq(last.pre.frames, LAMBDA r : heap[r].ft.id # last.id)
               /\ RealSize(tag) = RealSize(last.pre) - n
               /\ (tag.padding - last.pre.padding) + (Size(last.pre) - Size(tag)) = n

C8_Witness ==
    /\ last.op = "DeleteFrames" /\ Len(last.ret) >= 2
    /\ Len(tag.frames) >= 1
    /\ tag.padding > last.pre.padding

\* C9: DeleteFrame(f) removes every entry of the frame list that is f, keeps
\* the others in order, and returns the removed entries: f alone when it was in
\* the tag, nothing when it was not.
C9_DeleteFrameReturnsTheRemoved ==
    last.op = "DeleteFrame"
        => LET f == last.refs[1]
           IN  /\ tag.frames = SelectSeq(last.pre.frames, LAMBDA r : r # f)
               /\ last.ret = SelectSeq(last.pre.frames, LAMBDA r : r = f)

\* C10: a setter changes the field's text frame in place when the tag holds
\* one (the frame list stays as it was) and appends one new text frame of the
\* field's type when it holds none; so a new tag on which only one setter was
\* called holds exactly one frame, of that field.
C10_SetterEditsInPlaceOrAppendsOne ==
    (last.op = "Set" /\ tag.kind = "v2")
        => LET ft == commonMap(tag, last.field)
               had == \E k \in 1..Len(last.pre.frames) :
                          /\ heap[last.pre.frames[k]].ft.id = ft.id
                          /\ heap[last.pre.frames[k]].kind = "text"
           IN  /\ had => tag.frames = last.pre.frames
               /\ ~had => /\ Len(tag.frames) = Len(last.pre.frames) + 1
                          /\ Take(tag.frames, Len(last.pre.frames)) = last.pre.frames
                          /\ heap[tag.frames[Len(tag.frames)]].ft = ft
                          /\ heap[tag.frames[Len(tag.frames)]].kind = "text"
               /\ (fresh /\ calls = {last.field})
                      => Len(tag.frames) = 1 /\ Len(Frames(tag, heap, ft.id)) = 1

C10_Witness ==
    /\ last.op = "Set" /\ tag.kind = "v2" /\ fresh /\ calls = {last.field}
    /\ nops >= 2
    /\ last.pre.frames = tag.frames
    /\ Size(tag) > Size(last.pre)

\* C11: for every n below 2^28, SynchInt(SynchBytes(n)) is n with no error; for
\* every uint32 n, NormInt(NormBytes(n)) is n with no error; each encoder
\* returns 4 bytes whose chunks, the most significant first, make up n.
C11_EncodeThenDecodeIsTheNumber ==
    /\ (Returned("SynchBytes") /\ call.n >= 0 /\ call.n < Pow2(28))
           => /\ result.back = [err |-> "", i |-> call.n]
              /\ Len(result.bytes) = 4
              /\ \A k \in 1..4 : result.bytes[k] \in 0..127
              /\ call.n = ((result.bytes[1] * 128 + result.bytes[2]) * 128
                              + result.bytes[3]) * 128 + result.bytes[4]
    /\ Returned("NormBytes")
           => /\ result.back = [err |-> "", i |-> call.n]
              /\ Len(result.bytes) = 4
              /\ \A k \in 1..4 : result.bytes[k] \in 0..255
              /\ call.n = (IF result.bytes[1] >= 128 THEN result.bytes[1] - 256
                                                     ELSE result.bytes[1]) * 16777216
                           + (result.bytes[2] * 256 + result.bytes[3]) * 256
                           + result.bytes[4]
    /\ (Returned("SynchBytes") /\ call.n = 144619524)
           => result.bytes = << 68, 122, 112, 4 >>
    /\ (Returned("NormBytes") /\ call.n = 194358964)
           => result.bytes = << 11, 149, 174, 180 >>

C11_Witness ==
    /\ Returned("NormBytes") /\ call.n < 0
    /\ result.bytes[1] = 255 /\ result.bytes[4] = 0

\* C12: for every encoding byte b, EncodingForIndex(b) and
\* EncodingNullLengthForIndex(b) return without failing the entry for b when b
\* is in 0..3 and entry 0 (ISO-8859-1, terminator length 1) otherwise, b = 4
\* included; IndexForEncoding returns 0 for a name the table does not hold.
C12_OutOfRangeFallsBackToEntryZero ==
    /\ Returned("EncodingForIndex")
           => /\ ~result.panic
              /\ result.name = IF call.b \in 0..3 THEN EncodingMap[call.b + 1].Name
                                                  ELSE "ISO-8859-1"
    /\ Returned("EncodingNullLengthForIndex")
           => /\ ~result.panic
              /\ result.length = IF call.b \in 0..3
                                  THEN EncodingMap[call.b + 1].NullLength
                                  ELSE 1
    /\ (Returned("IndexForEncoding")
            /\ \A k \in 1..Len(EncodingMap) : EncodingMap[k].Name # call.e)
           => result.index = 0

\* C13: IndexForEncoding(EncodingForIndex(i)) is i for i in 0..3, and the
\* names in index order are ISO-8859-1, UTF-16, UTF-16BE, UTF-8.
C13_IndexOfNameOfIndex ==
    (Returned("EncodingForIndex") /\ call.b \in 0..3)
        => /\ ~result.panic
           /\ result.back = call.b
           /\ result.name = << "ISO-8859-1", "UTF-16", "UTF-16BE", "UTF-8" >>[call.b + 1]

C13_Witness ==
    Returned("EncodingForIndex") /\ call.b = 3 /\ result.back = 3

\* C15 as claimed: from a tag with Padding() = 20, a mutation that grows the
\* content by 5 bytes leaves Size() as it was and makes Padding() 15; a further
\* growth of 30 bytes makes Padding() 0 and Size() larger by 10.
C15_FurtherGrowthAddsTenToSize ==
    (Returned("Grow") /\ result.before.padding = 20 /\ call.first = 5 /\ call.second = 30)
        => /\ Size(result.first) = Size(result.before)
           /\ result.first.padding = 15
           /\ result.second.padding = 0
           /\ Size(result.second) = Size(result.first) + 10

\* C15 as amended: from a tag with Padding() = 20, a growth of 5 bytes leaves
\* Size() as it was and makes Padding() 15; a further growth of 30 bytes makes
\* Padding() 0 and Size() larger by 15, the 30 bytes less the 15 bytes of
\* padding that were left.
C15_FurtherGrowthAddsTheUnabsorbedPart ==
    (Returned("Grow") /\ result.before.padding = 20 /\ call.first = 5 /\ call.second = 30)
        => /\ RealSize(result.first) = RealSize(result.before) + 5
           /\ Size(result.first) = Size(result.before)
           /\ result.first.padding = 15
           /\ RealSize(result.second) = RealSize(result.first) + 30
           /\ result.second.padding = 0
           /\ Size(result.second) = Size(result.first) + 15

C15_Witness ==
    /\ Returned("Grow") /\ result.before.padding = 20
    /\ call.first = 5 /\ call.second = 30
    /\ Len(result.second.frames) = 2 /\ result.second.dirty

\* C14: for a v2.4 tag that holds at least one frame of a registered id and
\* one of an unknown id, parsing what Bytes() returns gives a tag with the same
\* frames in the same order (ids, sizes, flags, payloads) whose Bytes() is the
\* same bytes; the frame of the unknown id is there as a data frame described
\* as "Unknown frame".
C14_ParseOfBytesIsTheSameTag ==
    (/\ phase = "open" /\ tag.kind = "v2" /\ tag.version = 4
     /\ \E k \in 1..Len(tag.frames) : heap[tag.frames[k]].ft.id \in V24FrameTypeIds
     /\ \E k \in 1..Len(tag.frames) :
            heap[tag.frames[k]].ft.description = "Unknown frame")
        => \A out \in {TagBytes(tag, heap)} :
               ~out.panic
                  => \E again \in {ParseTag(out.bytes)} :
                       /\ ~again.nil
                       /\ Len(again.objects) = Len(tag.frames)
                       /\ \A k \in 1..Len(tag.frames) :
                              LET old == heap[tag.frames[k]]
                                  new == again.objects[k]
                              IN  /\ new.ft = old.ft
                                  /\ new.kind = old.kind
                                  /\ new.size = old.size
                                  /\ new.statusFlags = old.statusFlags
                                  /\ new.formatFlags = old.formatFlags
                                  /\ FrameBytes(new) = FrameBytes(old)
                       /\ TagBytes(again.tag, again.objects) = out

\* C16: across AddFrames, DeleteFrames and DeleteFrame the declared Size()
\* never decreases, and a deletion leaves Size() as it was and only increases
\* Padding(); so at commit Size() >= originalSize, the committed storage is not
\* shorter than it was, and when Size() = originalSize no byte after the tag
\* region has moved.
C16_SizeNeverDecreases ==
    /\ (last.op \in {"AddFrames", "DeleteFrames", "DeleteFrame"})
           => Size(tag) >= Size(last.pre)
    /\ (last.op \in {"DeleteFrames", "DeleteFrame"})
           => /\ Size(tag) = Size(last.pre)
              /\ last.pre.padding >= 0
              /\ tag.padding >= last.pre.padding
    /\ (phase = "open" /\ tag.kind = "v2" /\ StructuralOnly)
           => Size(tag) >= originalSize
    /\ (Committed /\ tag.kind = "v2" /\ StructuralOnly)
           => /\ Len(blob) >= Len(last.blob)
              /\ Size(tag) = originalSize
                     => Drop(blob, HeaderSize + originalSize)
                          = Drop(last.blob, HeaderSize + originalSize)

\* C18: the semantic table of every version maps each of Title, Artist, Album,
\* Year, Genre, Length and Comments to a FrameType with a frame id that is not
\* empty, the table NewTag(4) installs included; so the frame SetLength sets
\* on a v2.4 tag has a frame id.
C18_EveryFieldHasAFrameId ==
    (phase = "open" /\ tag.kind = "v2")
        => /\ \A name \in SemanticNames : commonMap(tag, name).id # << >>
           /\ (last.op = "Set" /\ last.field = "Length")
                  => \A k \in 1..Len(tag.frames) : heap[tag.frames[k]].ft.id # << >>

\* C20 as claimed: Bytes() returns the 10-byte header and then only the frames'
\* serialized header and payload in list order, no padding bytes: its length
\* is 10 plus the sum of the frames' footprints.
C20_BytesEmitsNoPadding ==
    (phase = "open" /\ tag.kind = "v2")
        => LET out == TagBytes(tag, heap)
               used == Footprint(tag, heap, tag.frames)
           IN  ~out.panic => Len(out.bytes) = HeaderSize + used

\* C20 as amended: Bytes() returns the 10-byte header and then Size() bytes:
\* each frame's serialized header and payload in list order, each beginning
\* where the footprint of the frame before it ends, and zero bytes from the end
\* of the last footprint up to Size().  The padding is emitted: the length is
\* 10 + Size(), which is 10 plus the footprints only when nothing of Size() is
\* left after them.
C20_BytesEmitsSizeBytes ==
    (phase = "open" /\ tag.kind = "v2")
        => LET out == TagBytes(tag, heap)
               used == Footprint(tag, heap, tag.frames)
               Offset(k) == HeaderSize + Footprint(tag, heap, Take(tag.frames, k - 1))
           IN  ~out.panic
                  => /\ Len(out.bytes) = HeaderSize + Size(tag)
                     /\ Take(out.bytes, HeaderSize) = HeaderBytes(tag)
                     /\ \A k \in 1..Len(tag.frames) :
                            LET written == frameBytesConstructor(tag, heap[tag.frames[k]])
                                slot == Offset(k + 1) - Offset(k)
                            IN  SubSeq(out.bytes, Offset(k) + 1,
                                       Offset(k) + (IF Len(written) < slot
                                                    THEN Len(written) ELSE slot))
                                  = Take(written, slot)
                     /\ \A j \in (HeaderSize + used + 1)..Len(out.bytes) : out.bytes[j] = 0
                     /\ (Len(out.bytes) = HeaderSize + used) <=> (Size(tag) = used)

C20_Witness ==
    /\ phase = "open" /\ tag.kind = "v2" /\ tag.padding > 0 /\ Len(tag.frames) >= 2
    /\ ~TagBytes(tag, heap).panic
    /\ Len(TagBytes(tag, heap).bytes)
          = HeaderSize + Footprint(tag, heap, tag.frames) + tag.padding

\* The number a size field holds: its bytes as digits of the radix.
RECURSIVE BigEndian(_, _)
BigEndian(b, radix) ==
    IF b = << >> THEN 0
    ELSE BigEndian(Take(b, Len(b) - 1), radix) * radix + b[Len(b)]

\* What ends the scan at a frame that begins rest: the header is cut short, the
\* header is all zero, the size field is not synch-safe, or the payload is cut
\* short.
EndsTheScan(t, rest) ==
    LET idLen == IF t.codec = "V22" THEN 3 ELSE 4
        sizeLen == t.frameHeaderSize - idLen - (IF t.codec = "V22" THEN 0 ELSE 2)
    IN  \/ Len(rest) < t.frameHeaderSize
        \/ Take(rest, t.frameHeaderSize) = Zeros(t.frameHeaderSize)
        \/ t.codec = "V24" /\ \E k \in (idLen + 1)..(idLen + sizeLen) : rest[k] >= 128
        \/ Len(rest) - t.frameHeaderSize
               < BigEndian(SubSeq(rest, idLen + 1, idLen + sizeLen),
                           IF t.codec = "V24" THEN 128 ELSE 256)

\* C17: ParseTag ends the scan at the first frame whose header is all zero,
\* whose header or payload is cut short or whose size field is not synch-safe:
\* every frame of the list is a whole frame of the stream, in stream order and
\* one after the other from offset 10; when the scan ended before the declared
\* size was used up, it ended at such a frame, nothing of that frame is in the
\* list, and Padding() is the declared size less the footprint of the frames
\* of the list, between 0 and the declared size.
C17_ScanEndsAtTheFirstUnreadableFrame ==
    (Returned("ParseTag") /\ ~result.nil)
        => LET parsed == result.tag
               read == result.objects
               n == Len(parsed.frames)
               Offset(k) == HeaderSize + Footprint(parsed, read, Take(parsed.frames, k - 1))
               used == Footprint(parsed, read, parsed.frames)
           IN  /\ parsed.frames = [k \in 1..n |-> k]
               /\ \A k \in 1..n :
                      /\ ~EndsTheScan(parsed, Drop(call.stream, Offset(k)))
                      /\ frameBytesConstructor(parsed, read[k])
                            = SubSeq(call.stream, Offset(k) + 1, Offset(k + 1))
               /\ used < Size(parsed)
                      => /\ EndsTheScan(parsed, Drop(call.stream, HeaderSize + used))
                         /\ parsed.padding = Size(parsed) - used
                         /\ parsed.padding >= 0 /\ parsed.padding <= Size(parsed)

C17_Witness ==
    /\ Returned("ParseTag") /\ ~result.nil
    /\ result.tag.version = 4 /\ Len(result.tag.frames) = 2
    /\ result.tag.padding = 138

\* C19: ByteInt(buf, base) returns the invalid-length error exactly when buf
\* has more than 4 bytes; for a buffer that passed that test it returns the
\* bit-overflow error exactly when base < 8 and some byte is >= 2^base; and
\* otherwise it returns, with no error, the number whose chunks of base bits,
\* the most significant first, are the bytes.  For base 8 no byte is rejected.
C19_ByteIntErrorsAndValue ==
    Returned("ByteInt")
        => LET buf == call.buf
               base == call.base
               n == Len(buf)
               long == n > 4
               over == base < 8 /\ \E k \in 1..n : buf[k] >= Pow2(base)
           IN  /\ (result.err = "byte integer: invalid []byte length") <=> long
               /\ ~long => ((result.err = "byte integer: exceed max bit") <=> over)
               /\ (~long /\ ~over)
                      => /\ result.err = ""
                         /\ \A k \in 1..n :
                                (result.i \div Pow2(base * (n - k))) % Pow2(base) = buf[k]
                         /\ base * n <= 30
                                => (result.i >= 0 /\ result.i < Pow2(base * n))
               /\ (base = 8 /\ ~long) => result.err = ""

C19_Witness ==
    /\ Returned("ByteInt") /\ call.base = 8 /\ Len(call.buf) = 4
    /\ call.buf[1] = 255 /\ call.buf[4] = 128
    /\ result.err = "" /\ result.i < 0

\* C21: a commit is idempotent.  When UpdateEditsIntoBytes has just returned
\* on a dirty v2 tag and is called again with no mutation in between, the
\* second call returns the bytes the first returned: nothing is shifted again
\* and the buffer is no longer.
C21_SecondCommitReturnsTheSameBytes ==
    [][(/\ last.op = "UpdateEditsIntoBytes" /\ phase = "open"
        /\ tag.kind = "v2" /\ Dirty(tag)
        /\ last'.op = "UpdateEditsIntoBytes" /\ nops' = nops + 1)
       => (phase' = "open" /\ blob' = blob)]_vars

\* The last call was a delete that matched nothing: DeleteFrames(id) on a tag
\* with no frame of that id, or DeleteFrame(f) on a tag that does not hold f.
DeletedNothing ==
    \/ last.op = "DeleteFrames" /\ Frames(last.pre, heap, last.id) = << >>
    \/ last.op = "DeleteFrame" /\ last.refs[1] \notin Range(last.pre.frames)

\* C22: a delete that matches nothing leaves the frame list, Size(), Padding()
\* and Dirty() as they were, so that a clean tag stays clean and a commit
\* after it returns the stream as it is.
C22_DeleteOfNothingChangesNothing ==
    DeletedNothing
        => /\ tag.frames = last.pre.frames
           /\ Size(tag) = Size(last.pre)
           /\ tag.padding = last.pre.padding
           /\ Dirty(tag) = Dirty(last.pre)
           /\ (~Dirty(last.pre) /\ storage = "bytes")
                  => UpdateEditsIntoBytes(tag, heap, blob, originalSize).blob = blob
           /\ (~Dirty(last.pre) /\ storage = "file")
                  => Close(tag, heap, blob, originalSize).file = blob

====
